---- MODULE Spec2Model ----
(***************************************************************************)
(* Model of energy_comparison.py: the extraction of hourly energy deltas   *)
(* from Home Assistant long-term statistics (get_statistics_data), the     *)
(* ENTSO-E price series (fetch_entsoe_prices) and the script body that     *)
(* joins them and compares a fixed with a dynamic tariff.                  *)
(*                                                                         *)
(* Units.  Timestamps are whole hours 0, 1, 2, ...  Energy is counted in   *)
(* units of 0.1 kWh, a price per kWh in units of 0.0001 EUR, hence a cost  *)
(* (energy x price) and a base fee in units of 0.00001 EUR.  A float of    *)
(* the program is an integer of the model; a division whose result is not  *)
(* an integer is kept as a fraction [num, den].                            *)
(*                                                                         *)
(* A cell that may be NaN / None is a set: NaN is {}, the number v is {v}. *)
(***************************************************************************)
EXTENDS Integers, Sequences, FiniteSets, TLC

VARIABLES
    results,        \* get_statistics_data alone: rows of the start_ts query
    results_old,    \* get_statistics_data alone: rows of the created_ts query
    returned,       \* get_statistics_data alone: its outcome

    cfg,            \* the USER-DEFINED VARIABLES of the script
    pc,             \* position of the script body
    conn,           \* the sqlite3 connection: "none", "open", "closed"
    error,          \* the exception caught by `except Exception as e`
    import_hourly,  \* Series returned for GRID_IMPORT_ENTITY
    export_hourly,  \* Series returned for GRID_EXPORT_ENTITY
    entsoe_prices,  \* Series returned by fetch_entsoe_prices
    fixed,          \* totals and costs of the fixed tariff
    combined,       \* the joined DataFrame
    dynamic,        \* costs of the dynamic tariff
    comparison,     \* savings and savings_pct
    printed,        \* report sections written to stdout so far
    csv_file        \* energy_comparison_hourly.csv: {} or {its content}

normVars == <<results, results_old, returned>>
mainVars == <<cfg, pc, conn, error, import_hourly, export_hourly, entsoe_prices,
              fixed, combined, dynamic, comparison, printed, csv_file>>
vars == <<results, results_old, returned, cfg, pc, conn, error, import_hourly,
          export_hourly, entsoe_prices, fixed, combined, dynamic, comparison,
          printed, csv_file>>

----------------------------------------------------------------------------
(* Bounds *)

\* number of hours in the window of a get_statistics_data call checked alone
MaxSamples == 3

\* number of hours in the window of a whole run of the script
MaxHours == 3

SampleHours == 0 .. (MaxSamples - 1)
Hours == 0 .. (MaxHours - 1)

----------------------------------------------------------------------------
(* Values *)

NaN == {}

\* the number held by a cell that is not NaN
ValueOf(cell) == CHOOSE v \in cell : TRUE

\* the values of a Series, in index order
Values(series) == [i \in 1 .. Len(series) |-> series[i].value]

Max(a, b) == IF a >= b THEN a ELSE b

RECURSIVE SumSeq(_)
SumSeq(s) == IF s = <<>> THEN 0 ELSE Head(s) + SumSeq(Tail(s))

\* Series.sum() / column.sum(): NaN cells are skipped, an empty sum is 0
RECURSIVE SumCells(_)
SumCells(s) ==
    IF s = <<>> THEN 0
    ELSE (IF Head(s) = NaN THEN 0 ELSE ValueOf(Head(s))) + SumCells(Tail(s))

\* the ascending sequence of the elements of a finite set of integers
RECURSIVE Ascending(_)
Ascending(S) ==
    IF S = {} THEN <<>>
    ELSE LET m == CHOOSE x \in S : \A y \in S : x <= y
         IN  <<m>> \o Ascending(S \ {m})

\* rows of `statistics` for one entity, as the query's ORDER BY returns them:
\* one row per hour of T that has one, ascending
RowsOf(T, cell) ==
    LET ts == Ascending(T)
    IN  [i \in 1 .. Len(ts) |->
            [start_ts |-> ts[i], sum |-> cell[ts[i]].sum, state |-> cell[ts[i]].state]]

RowSeqs(hours, sums, states) ==
    UNION { { RowsOf(T, cell) : cell \in [T -> [sum : sums, state : states]] }
            : T \in SUBSET hours }

----------------------------------------------------------------------------
(* get_statistics_data *)

\* df.sort_values('timestamp'): stable, ascending
RECURSIVE sort_values(_)
sort_values(df) ==
    IF df = <<>> THEN <<>>
    ELSE LET i == CHOOSE i \in 1 .. Len(df) :
                      \A j \in 1 .. Len(df) :
                          \/ df[i].start_ts < df[j].start_ts
                          \/ df[i].start_ts = df[j].start_ts /\ i <= j
         IN  <<df[i]>> \o sort_values(SubSeq(df, 1, i - 1) \o SubSeq(df, i + 1, Len(df)))

\* df['sum'].notna().any()
sum_notna_any(df) == \E i \in 1 .. Len(df) : df[i].sum # NaN

\* pd.to_numeric(column, errors='coerce') on a REAL column of SQLite: a float
\* stays the float it is, NULL becomes NaN
to_numeric(cell) == IF cell = NaN THEN NaN ELSE {ValueOf(cell)}

\* a - b on floats: NaN when either side is NaN
Minus(a, b) ==
    IF a = NaN \/ b = NaN THEN NaN
    ELSE {ValueOf(a) - ValueOf(b)}

\* hourly_from_sum without line 105: the first value stays the NaN of diff()
hourly_from_sum_diff_only(df) ==
    [i \in 1 .. Len(df) |->
        [timestamp |-> df[i].start_ts,
         value |-> IF i = 1 THEN NaN
                   ELSE Minus(to_numeric(df[i].sum), to_numeric(df[i - 1].sum))]]

\* df['sum'].diff(), then iloc[0] = df['sum'].iloc[0]
hourly_from_sum(df) ==
    [i \in 1 .. Len(df) |->
        [timestamp |-> df[i].start_ts,
         value |-> IF i = 1 THEN to_numeric(df[1].sum)
                   ELSE Minus(to_numeric(df[i].sum), to_numeric(df[i - 1].sum))]]

\* hourly_consumption = df['state']
hourly_from_state(df) ==
    [i \in 1 .. Len(df) |->
        [timestamp |-> df[i].start_ts, value |-> to_numeric(df[i].state)]]

\* handle_resets without line 112: negative values are kept
handle_resets_skipped(hc) == hc

\* hourly_consumption[hourly_consumption < 0] = 0   (NaN < 0 is False)
handle_resets(hc) ==
    [i \in 1 .. Len(hc) |->
        [timestamp |-> hc[i].timestamp,
         value |-> IF hc[i].value # NaN /\ ValueOf(hc[i].value) < 0
                   THEN {0} ELSE hc[i].value]]

\* hourly_consumption.dropna(); what is left holds numbers
RECURSIVE dropna(_)
dropna(hc) ==
    IF hc = <<>> THEN <<>>
    ELSE (IF Head(hc).value = NaN THEN <<>>
          ELSE <<[timestamp |-> Head(hc).timestamp,
                  value |-> ValueOf(Head(hc).value)]>>)
         \o dropna(Tail(hc))

\* get_statistics_data(db_conn, entity_id, start_dt, end_dt), given what the two
\* queries would return for the entity and the window
get_statistics_data(rows, rows_old) ==
    LET res == IF rows = <<>> THEN rows_old ELSE rows
        df  == sort_values(res)
    IN  IF res = <<>>
        THEN [status |-> "raised", value |-> <<>>]
        ELSE [status |-> "returned",
              value |-> dropna(handle_resets(IF sum_notna_any(df)
                                             THEN hourly_from_sum(df)
                                             ELSE hourly_from_state(df)))]

----------------------------------------------------------------------------
(* A call of get_statistics_data on its own *)

NormSums == {NaN, {-1}, {0}, {1}, {2}}
NormStates == {NaN, {-1}, {1}}

\* rows is what a query returns for the window SampleHours
NormRows(rows) ==
    \E T \in SUBSET SampleHours :
        \E cell \in [T -> [sum : NormSums, state : NormStates]] : rows = RowsOf(T, cell)

EmptyFixed == [total_import_kwh |-> 0, total_export_kwh |-> 0, fixed_import_cost |-> 0,
               fixed_export_credit |-> 0, fixed_base_cost |-> 0, total_fixed_cost |-> 0]
EmptyDynamic == [dynamic_import_cost |-> 0, dynamic_export_credit |-> 0,
                 dynamic_base_cost |-> 0, total_dynamic_cost |-> 0,
                 weighted_avg_price |-> [num |-> 0, den |-> 1]]
EmptyComparison == [savings |-> 0, savings_pct |-> [num |-> 0, den |-> 1]]

\* the settings as the repository ships them (lines 29-35, 44)
RepoConfig ==
    [FIXED_IMPORT_PRICE |-> 2500, FIXED_EXPORT_PRICE |-> 1000,
     BASE_FIXED_MONTHLY |-> 1500000, BASE_DYNAMIC_MONTHLY |-> 1701000,
     BASE_DYNAMIC_KWH |-> 1492, num_months |-> 12]

MainIdle ==
    /\ cfg = RepoConfig
    /\ pc = "idle"
    /\ conn = "none"
    /\ error = "none"
    /\ import_hourly = <<>>
    /\ export_hourly = <<>>
    /\ entsoe_prices = <<>>
    /\ fixed = EmptyFixed
    /\ combined = <<>>
    /\ dynamic = EmptyDynamic
    /\ comparison = EmptyComparison
    /\ printed = {}
    /\ csv_file = {}

InitNorm ==
    /\ NormRows(results)
    /\ IF results = <<>> THEN NormRows(results_old) ELSE results_old = <<>>
    /\ returned = [status |-> "pending", value |-> <<>>]
    /\ MainIdle

CallGetStatisticsData ==
    /\ returned.status = "pending"
    /\ returned' = get_statistics_data(results, results_old)
    /\ UNCHANGED <<results, results_old>>
    /\ UNCHANGED mainVars

NextNorm == CallGetStatisticsData

SpecNorm == InitNorm /\ [][NextNorm]_vars

----------------------------------------------------------------------------
(* Claims about get_statistics_data, under SpecNorm *)

\* the rows the call works on: the start_ts query's, else the created_ts query's
Res == IF results = <<>> THEN results_old ELSE results

AllSumsPresentNonNegative(rows) ==
    \A i \in 1 .. Len(rows) : rows[i].sum # NaN /\ ValueOf(rows[i].sum) >= 0

\* rows at hours 0, 1, ... carrying the given cumulative values and no state
Cumulative(cs) == [i \in 1 .. Len(cs) |-> [start_ts |-> i - 1, sum |-> {cs[i]}, state |-> NaN]]

\* C2: whenever the window yields no usable sample (no row, or rows none of which
\* carries a sum or a state), get_statistics_data raises; it never returns an
\* empty series.
C2_RaisesWhenNoUsableSample ==
    /\ (returned.status # "pending"
          /\ (\A i \in 1 .. Len(Res) : Res[i].sum = NaN /\ Res[i].state = NaN))
       => returned.status = "raised"
    /\ returned.status = "returned" => returned.value # <<>>

\* C5: for cumulative values c_1..c_n all present and non-negative the series
\* holds one delta per sample, in sample order: c_1, then max(0, c_i - c_(i-1));
\* [100,110,125] gives [100,10,15] and [50,80,20,45] gives [50,30,0,25].
C5_DeltasOfPresentSamples ==
    /\ (returned.status = "returned" /\ AllSumsPresentNonNegative(Res))
       => returned.value =
            [i \in 1 .. Len(Res) |->
                [timestamp |-> Res[i].start_ts,
                 value |-> IF i = 1 THEN ValueOf(Res[1].sum)
                           ELSE Max(0, ValueOf(Res[i].sum) - ValueOf(Res[i - 1].sum))]]
    /\ Values(get_statistics_data(Cumulative(<<100, 110, 125>>), <<>>).value)
         = <<100, 10, 15>>
    /\ Values(get_statistics_data(Cumulative(<<50, 80, 20, 45>>), <<>>).value)
         = <<50, 30, 0, 25>>

\* C5's case: three present samples, the counter decreasing once
C5_Witness ==
    /\ returned.status = "returned"
    /\ Len(Res) >= 3
    /\ AllSumsPresentNonNegative(Res)
    /\ \E i \in 2 .. Len(Res) : ValueOf(Res[i].sum) < ValueOf(Res[i - 1].sum)
    /\ \E i \in 2 .. Len(Res) : ValueOf(Res[i].sum) > ValueOf(Res[i - 1].sum)

\* C6: every value of the returned series is >= 0, whatever the samples, in
\* cumulative mode and in fallback (state) mode.
C6_DeltasNonNegative ==
    returned.status = "returned"
        => \A i \in 1 .. Len(returned.value) : returned.value[i].value >= 0

\* C6's case: fallback mode with a negative state, which is returned as 0
C6_Witness ==
    /\ returned.status = "returned"
    /\ ~sum_notna_any(Res)
    /\ \E i \in 1 .. Len(Res) :
          /\ Res[i].state # NaN
          /\ ValueOf(Res[i].state) < 0
          /\ \E k \in 1 .. Len(returned.value) :
                /\ returned.value[k].timestamp = Res[i].start_ts
                /\ returned.value[k].value = 0

\* the nearest earlier row with a cumulative value, 0 when there is none
PrevPresent(rows, i) ==
    LET earlier == {j \in 1 .. (i - 1) : rows[j].sum # NaN}
    IN  IF earlier = {} THEN 0 ELSE CHOOSE j \in earlier : \A k \in earlier : k <= j

\* C7: in cumulative mode the series has an entry at t exactly when the sample
\* at t carries a cumulative value, and that entry is the difference to the
\* nearest earlier present cumulative value (the value itself if there is none).
C7_OnlyAbsentSamplesDropped ==
    (returned.status = "returned" /\ sum_notna_any(Res)
       /\ \A i \in 1 .. Len(Res) : Res[i].sum # NaN => ValueOf(Res[i].sum) >= 0)
    => /\ {returned.value[k].timestamp : k \in 1 .. Len(returned.value)}
            = {Res[i].start_ts : i \in {j \in 1 .. Len(Res) : Res[j].sum # NaN}}
       /\ \A i \in 1 .. Len(Res) : Res[i].sum # NaN =>
            \E k \in 1 .. Len(returned.value) :
                /\ returned.value[k].timestamp = Res[i].start_ts
                /\ returned.value[k].value =
                     (IF PrevPresent(Res, i) = 0 THEN ValueOf(Res[i].sum)
                      ELSE Max(0, ValueOf(Res[i].sum)
                                    - ValueOf(Res[PrevPresent(Res, i)].sum)))

----------------------------------------------------------------------------
(* fetch_entsoe_prices *)

\* the hours a Series is indexed by, and its value at one of them
index(series) == {series[i].timestamp : i \in 1 .. Len(series)}
at(series, t) == (CHOOSE i \in 1 .. Len(series) : series[i].timestamp = t)

\* Series.sum()
series_sum(series) == SumSeq(Values(series))

\* prices / 1000: EUR/MWh to EUR/kWh, here held in units of 0.0001 EUR
per_kwh(prices) ==
    [i \in 1 .. Len(prices) |->
        [timestamp |-> prices[i].timestamp, value |-> (prices[i].value * 10000) \div 1000]]

\* prices.resample('1H').mean().fillna(method='ffill'): one bin per hour from the
\* first to the last sample; a bin without a sample takes the value before it.
\* The day-ahead series holds at most one sample per hour, the mean of a bin
\* that has one is that sample.
resample_ffill(prices) ==
    IF prices = <<>> THEN <<>>
    ELSE LET first == prices[1].timestamp
             last  == prices[Len(prices)].timestamp
             src(h) == CHOOSE i \in 1 .. Len(prices) :
                          /\ prices[i].timestamp <= h
                          /\ \A j \in 1 .. Len(prices) :
                                prices[j].timestamp <= h => j <= i
         IN  [k \in 1 .. (last - first + 1) |->
                [timestamp |-> first + k - 1, value |-> prices[src(first + k - 1)].value]]

\* fetch_entsoe_prices(api_key, country_code, start_dt, end_dt), given what
\* client.query_day_ahead_prices returns (or that it raises)
fetch_entsoe_prices(queried, query_raises) ==
    IF query_raises \/ queried = <<>>
    THEN [status |-> "raised", value |-> <<>>]
    ELSE [status |-> "returned", value |-> resample_ffill(per_kwh(queried))]

----------------------------------------------------------------------------
(* The script body: lines 176-320 *)

\* settings of the end-to-end scenario: markup 0.05, export price 0.10, no base fee
ScenarioConfig ==
    [FIXED_IMPORT_PRICE |-> 2500, FIXED_EXPORT_PRICE |-> 1000,
     BASE_FIXED_MONTHLY |-> 0, BASE_DYNAMIC_MONTHLY |-> 0,
     BASE_DYNAMIC_KWH |-> 500, num_months |-> 12]

Configs == {RepoConfig, ScenarioConfig}

\* what the database and the price service may hold for the window
GridImportRows == RowSeqs(Hours, {NaN, {10}}, {NaN, {5}})
GridExportRows == RowSeqs(Hours, {NaN, {30}}, {NaN, {5}})
QueriedPrices ==
    UNION { { LET ts == Ascending(T)
              IN  [i \in 1 .. Len(ts) |-> [timestamp |-> ts[i], value |-> v[ts[i]]]]
              : v \in [T -> {50, 300}] }
            : T \in SUBSET Hours }

\* a cell times a number: NaN stays NaN
Times(cell, n) == IF cell = NaN THEN NaN ELSE {ValueOf(cell) * n}

\* pd.DataFrame({'import_kwh': import_hourly, 'export_kwh': export_hourly}):
\* indexed by the union of the two indexes, NaN where a Series has no entry
consumption_df(imp, exp) ==
    [h \in index(imp) \cup index(exp) |->
        [import_kwh |-> IF h \in index(imp) THEN {imp[at(imp, h)].value} ELSE NaN,
         export_kwh |-> IF h \in index(exp) THEN {exp[at(exp, h)].value} ELSE NaN]]

\* consumption_df.join(entsoe_prices.rename('price_eur_kwh'), how='inner')
join_inner(df, prices) ==
    [h \in DOMAIN df \cap index(prices) |->
        [import_kwh |-> df[h].import_kwh,
         export_kwh |-> df[h].export_kwh,
         price_eur_kwh |-> {prices[at(prices, h)].value}]]

\* the three columns added to `combined` (lines 249-251)
with_hourly_costs(df, c) ==
    [h \in DOMAIN df |->
        LET dynamic_price_total == {ValueOf(df[h].price_eur_kwh) + c.BASE_DYNAMIC_KWH}
        IN  [import_kwh |-> df[h].import_kwh,
             export_kwh |-> df[h].export_kwh,
             price_eur_kwh |-> df[h].price_eur_kwh,
             dynamic_price_total |-> dynamic_price_total,
             hourly_import_cost |-> Times(df[h].import_kwh, ValueOf(dynamic_price_total)),
             hourly_export_credit |-> Times(df[h].export_kwh, c.FIXED_EXPORT_PRICE)]]

\* df[name].sum()
column_sum(df, name) ==
    LET hs == Ascending(DOMAIN df)
    IN  SumCells([i \in 1 .. Len(hs) |-> df[hs[i]][name]])

\* lines 226-229
fixed_tariff(total_import_kwh, total_export_kwh, c) ==
    LET fixed_import_cost == total_import_kwh * c.FIXED_IMPORT_PRICE
        fixed_export_credit == total_export_kwh * c.FIXED_EXPORT_PRICE
        fixed_base_cost == c.BASE_FIXED_MONTHLY * c.num_months
    IN  [total_import_kwh |-> total_import_kwh,
         total_export_kwh |-> total_export_kwh,
         fixed_import_cost |-> fixed_import_cost,
         fixed_export_credit |-> fixed_export_credit,
         fixed_base_cost |-> fixed_base_cost,
         total_fixed_cost |-> fixed_import_cost - fixed_export_credit + fixed_base_cost]

\* lines 240-246
aligned(imp, exp, prices) == join_inner(consumption_df(imp, exp), prices)

\* lines 253-258
dynamic_tariff(df, c) ==
    LET dynamic_import_cost == column_sum(df, "hourly_import_cost")
        dynamic_export_credit == column_sum(df, "hourly_export_credit")
        dynamic_base_cost == c.BASE_DYNAMIC_MONTHLY * c.num_months
    IN  [dynamic_import_cost |-> dynamic_import_cost,
         dynamic_export_credit |-> dynamic_export_credit,
         dynamic_base_cost |-> dynamic_base_cost,
         total_dynamic_cost |-> dynamic_import_cost - dynamic_export_credit + dynamic_base_cost,
         weighted_avg_price |->
            IF column_sum(df, "import_kwh") > 0
            THEN [num |-> dynamic_import_cost, den |-> column_sum(df, "import_kwh")]
            ELSE [num |-> 0, den |-> 1]]

\* lines 272-273
compare(total_fixed_cost, total_dynamic_cost) ==
    LET savings == total_fixed_cost - total_dynamic_cost
    IN  [savings |-> savings,
         savings_pct |-> IF total_fixed_cost > 0
                         THEN [num |-> savings * 100, den |-> total_fixed_cost]
                         ELSE [num |-> 0, den |-> 1]]

NormIdle ==
    /\ results = <<>>
    /\ results_old = <<>>
    /\ returned = [status |-> "pending", value |-> <<>>]

Init ==
    /\ NormIdle
    /\ cfg \in Configs
    /\ pc = "connect"
    /\ conn = "none"
    /\ error = "none"
    /\ import_hourly = <<>>
    /\ export_hourly = <<>>
    /\ entsoe_prices = <<>>
    /\ fixed = EmptyFixed
    /\ combined = <<>>
    /\ dynamic = EmptyDynamic
    /\ comparison = EmptyComparison
    /\ printed = {}
    /\ csv_file = {}

\* the exception leaves the try block for the except clause
Raise(e) ==
    /\ pc' = "except"
    /\ error' = e

\* lines 177-178: sqlite3.connect(DB_PATH), outside the try statement, raises or
\* returns the connection; pytz.timezone(TIMEZONE) of the zone the script names
\* returns
Connect ==
    /\ pc = "connect"
    /\ \/ /\ conn' = "open"
          /\ pc' = "list_stats"
          /\ UNCHANGED error
       \/ /\ pc' = "crashed"
          /\ error' = "sqlite3.Error"
          /\ UNCHANGED conn
    /\ UNCHANGED <<cfg, import_hourly, export_hourly, entsoe_prices, fixed, combined,
                   dynamic, comparison, printed, csv_file>>
    /\ UNCHANGED normVars

\* lines 181-192: list_available_statistics(conn)
ListStatistics ==
    /\ pc = "list_stats"
    /\ \/ /\ pc' = "get_import"
          /\ printed' = printed \cup {"statistics found"}
          /\ UNCHANGED error
       \/ /\ Raise("sqlite3.Error")
          /\ UNCHANGED printed
    /\ UNCHANGED <<cfg, conn, import_hourly, export_hourly, entsoe_prices, fixed,
                   combined, dynamic, comparison, csv_file>>
    /\ UNCHANGED normVars

\* lines 197-199: import_hourly = get_statistics_data(conn, GRID_IMPORT_ENTITY, ...)
GetImport ==
    /\ pc = "get_import"
    /\ \/ \E rows \in GridImportRows :
          \E rows_old \in (IF rows = <<>> THEN GridImportRows ELSE {<<>>}) :
            LET r == get_statistics_data(rows, rows_old)
            IN  IF r.status = "raised"
                THEN /\ Raise("ValueError")
                     /\ UNCHANGED import_hourly
                ELSE /\ import_hourly' = r.value
                     /\ pc' = "get_export"
                     /\ UNCHANGED error
       \/ /\ Raise("sqlite3.Error")
          /\ UNCHANGED import_hourly
    /\ UNCHANGED <<cfg, conn, export_hourly, entsoe_prices, fixed, combined, dynamic,
                   comparison, printed, csv_file>>
    /\ UNCHANGED normVars

\* lines 200-209: export_hourly = get_statistics_data(conn, GRID_EXPORT_ENTITY, ...),
\* then the two totals
GetExport ==
    /\ pc = "get_export"
    /\ \/ \E rows \in GridExportRows :
          \E rows_old \in (IF rows = <<>> THEN GridExportRows ELSE {<<>>}) :
            LET r == get_statistics_data(rows, rows_old)
            IN  IF r.status = "raised"
                THEN /\ Raise("ValueError")
                     /\ UNCHANGED <<export_hourly, fixed, printed>>
                ELSE /\ export_hourly' = r.value
                     /\ fixed' = [fixed EXCEPT
                                    !.total_import_kwh = series_sum(import_hourly),
                                    !.total_export_kwh = series_sum(r.value)]
                     /\ printed' = printed \cup {"totals"}
                     /\ pc' = "fetch_prices"
                     /\ UNCHANGED error
       \/ /\ Raise("sqlite3.Error")
          /\ UNCHANGED <<export_hourly, fixed, printed>>
    /\ UNCHANGED <<cfg, conn, import_hourly, entsoe_prices, combined, dynamic,
                   comparison, csv_file>>
    /\ UNCHANGED normVars

\* lines 214-221: entsoe_prices = fetch_entsoe_prices(...)
FetchPrices ==
    /\ pc = "fetch_prices"
    /\ \E queried \in QueriedPrices, query_raises \in BOOLEAN :
          LET r == fetch_entsoe_prices(queried, query_raises)
          IN  IF r.status = "raised"
              THEN /\ Raise("ValueError")
                   /\ UNCHANGED <<entsoe_prices, printed>>
              ELSE /\ entsoe_prices' = r.value
                   /\ printed' = printed \cup {"prices"}
                   /\ pc' = "calculate"
                   /\ UNCHANGED error
    /\ UNCHANGED <<cfg, conn, import_hourly, export_hourly, fixed, combined, dynamic,
                   comparison, csv_file>>
    /\ UNCHANGED normVars

\* lines 223-299: both tariffs, the comparison, the statistics
Calculate ==
    /\ pc = "calculate"
    /\ fixed' = fixed_tariff(fixed.total_import_kwh, fixed.total_export_kwh, cfg)
    /\ combined' = with_hourly_costs(aligned(import_hourly, export_hourly, entsoe_prices), cfg)
    /\ dynamic' = dynamic_tariff(combined', cfg)
    /\ comparison' = compare(fixed'.total_fixed_cost, dynamic'.total_dynamic_cost)
    /\ printed' = printed \cup {"fixed", "dynamic", "comparison", "statistics"}
    /\ pc' = "to_csv"
    /\ UNCHANGED <<cfg, conn, error, import_hourly, export_hourly, entsoe_prices, csv_file>>
    /\ UNCHANGED normVars

\* lines 301-304: combined.to_csv(output_file)
ToCsv ==
    /\ pc = "to_csv"
    /\ \/ /\ csv_file' = {combined}
          /\ printed' = printed \cup {"exported"}
          /\ pc' = "finally"
          /\ UNCHANGED error
       \/ /\ Raise("OSError")
          /\ UNCHANGED <<csv_file, printed>>
    /\ UNCHANGED <<cfg, conn, import_hourly, export_hourly, entsoe_prices, fixed,
                   combined, dynamic, comparison>>
    /\ UNCHANGED normVars

\* lines 306-314: except Exception as e
Except ==
    /\ pc = "except"
    /\ printed' = printed \cup {"error", "troubleshooting"}
    /\ pc' = "finally"
    /\ UNCHANGED <<cfg, conn, error, import_hourly, export_hourly, entsoe_prices, fixed,
                   combined, dynamic, comparison, csv_file>>
    /\ UNCHANGED normVars

\* Finally had conn.close() been the last statement of the try block instead:
\* the connection is not closed after an error
FinallyCloseOnSuccessOnly ==
    /\ pc = "finally"
    /\ conn' = IF error = "none" THEN "closed" ELSE conn
    /\ printed' = printed \cup {"complete"}
    /\ pc' = "done"
    /\ UNCHANGED <<cfg, error, import_hourly, export_hourly, entsoe_prices, fixed,
                   combined, dynamic, comparison, csv_file>>
    /\ UNCHANGED normVars

\* lines 316-320: finally: conn.close(), then the closing lines
Finally ==
    /\ pc = "finally"
    /\ conn' = "closed"
    /\ printed' = printed \cup {"complete"}
    /\ pc' = "done"
    /\ UNCHANGED <<cfg, error, import_hourly, export_hourly, entsoe_prices, fixed,
                   combined, dynamic, comparison, csv_file>>
    /\ UNCHANGED normVars

Next ==
    \/ Connect
    \/ ListStatistics
    \/ GetImport
    \/ GetExport
    \/ FetchPrices
    \/ Calculate
    \/ ToCsv
    \/ Except
    \/ Finally

Spec == Init /\ [][Next]_vars

----------------------------------------------------------------------------
(* Claims about a run of the script, under Spec *)

\* the tariffs have been calculated
Calculated == "dynamic" \in printed

\* the hours present in all three inputs
AlignedHours == index(import_hourly) \cap index(export_hourly) \cap index(entsoe_prices)

\* the sum of term(h) over the hours of H
SumOverHours(H, term(_)) ==
    LET hs == Ascending(H)
    IN  SumSeq([i \in 1 .. Len(hs) |-> term(hs[i])])

ImportAt(h) == import_hourly[at(import_hourly, h)].value
ExportAt(h) == export_hourly[at(export_hourly, h)].value
PriceAt(h) == entsoe_prices[at(entsoe_prices, h)].value

\* each of the three inputs holds at least one hour.  The claims about the join
\* and the tariffs are stated for such runs, so that none of them is decided by
\* an empty Series returned by get_statistics_data (C2).
InputsNonEmpty ==
    /\ import_hourly # <<>>
    /\ export_hourly # <<>>
    /\ entsoe_prices # <<>>

\* two fractions of the model that stand for the same number
SameFraction(a, b) == a = b \/ (a.num = 0 /\ b.num = 0)

\* C1: the hours of `combined` are exactly the hours present in import, export and
\* price, and no row of it lacks import_kwh, export_kwh or price.
C1_StrictInnerJoin ==
    (Calculated /\ InputsNonEmpty) =>
        /\ DOMAIN combined = AlignedHours
        /\ \A h \in DOMAIN combined :
              /\ combined[h].import_kwh # NaN
              /\ combined[h].export_kwh # NaN
              /\ combined[h].price_eur_kwh # NaN

\* C3: when no hour is present in all three inputs the run fails with an error
\* before a dynamic total, a comparison or the CSV is produced.
C3_EmptyIntersectionFails ==
    ("prices" \in printed /\ InputsNonEmpty /\ AlignedHours = {}) =>
        /\ "dynamic" \notin printed
        /\ "comparison" \notin printed
        /\ csv_file = {}
        /\ pc = "done" => error # "none"

\* C4: the fixed tariff is evaluated on the aligned hours, the hours the dynamic
\* tariff is evaluated on: its import cost is FIXED_IMPORT_PRICE times the
\* import of the aligned hours, its export credit FIXED_EXPORT_PRICE times their
\* export, and its energy totals are those of the dynamic tariff.
C4_FixedTariffOnAlignedHours ==
    (Calculated /\ InputsNonEmpty) =>
        /\ fixed.fixed_import_cost
             = cfg.FIXED_IMPORT_PRICE * SumOverHours(AlignedHours, ImportAt)
        /\ fixed.fixed_export_credit
             = cfg.FIXED_EXPORT_PRICE * SumOverHours(AlignedHours, ExportAt)
        /\ fixed.total_import_kwh = column_sum(combined, "import_kwh")
        /\ fixed.total_export_kwh = column_sum(combined, "export_kwh")

\* the three hours of the end-to-end scenario: (2 kWh, 0, 0.10), (1 kWh, 0.5 kWh,
\* 0.30), (0, 1 kWh, 0.05)
ScenarioImport == <<[timestamp |-> 0, value |-> 20], [timestamp |-> 1, value |-> 10],
                    [timestamp |-> 2, value |-> 0]>>
ScenarioExport == <<[timestamp |-> 0, value |-> 0], [timestamp |-> 1, value |-> 5],
                    [timestamp |-> 2, value |-> 10]>>
ScenarioPrices == <<[timestamp |-> 0, value |-> 1000], [timestamp |-> 1, value |-> 3000],
                    [timestamp |-> 2, value |-> 500]>>
ScenarioDynamic ==
    dynamic_tariff(with_hourly_costs(aligned(ScenarioImport, ScenarioExport, ScenarioPrices),
                                     ScenarioConfig),
                   ScenarioConfig)

\* C8: over the aligned hours the dynamic import cost is the sum of
\* import_kwh(h) * (price(h) + BASE_DYNAMIC_KWH), the export credit the sum of
\* export_kwh(h) * FIXED_EXPORT_PRICE, the total their difference plus
\* BASE_DYNAMIC_MONTHLY * num_months; the scenario gives 0.65, 0.15 and 0.50.
C8_DynamicCostPerHour ==
    /\ (Calculated /\ InputsNonEmpty) =>
        /\ dynamic.dynamic_import_cost
             = SumOverHours(AlignedHours,
                            LAMBDA h : ImportAt(h) * (PriceAt(h) + cfg.BASE_DYNAMIC_KWH))
        /\ dynamic.dynamic_export_credit
             = SumOverHours(AlignedHours, LAMBDA h : ExportAt(h) * cfg.FIXED_EXPORT_PRICE)
        /\ dynamic.total_dynamic_cost
             = dynamic.dynamic_import_cost - dynamic.dynamic_export_credit
                 + cfg.BASE_DYNAMIC_MONTHLY * cfg.num_months
    /\ ScenarioDynamic.dynamic_import_cost = 65000
    /\ ScenarioDynamic.dynamic_export_credit = 15000
    /\ ScenarioDynamic.total_dynamic_cost = 50000

\* What the code computes instead: each sum runs over the rows of `combined`
\* that carry the energy value, whether or not the other meter has the hour.
DynamicCostOverCombinedRows ==
    Calculated =>
        /\ dynamic.dynamic_import_cost
             = SumOverHours(index(import_hourly) \cap index(entsoe_prices),
                            LAMBDA h : ImportAt(h) * (PriceAt(h) + cfg.BASE_DYNAMIC_KWH))
        /\ dynamic.dynamic_export_credit
             = SumOverHours(index(export_hourly) \cap index(entsoe_prices),
                            LAMBDA h : ExportAt(h) * cfg.FIXED_EXPORT_PRICE)

\* C9: savings is the fixed total minus the dynamic total, and savings_pct is
\* savings / total_fixed_cost * 100 for every total_fixed_cost other than 0, a
\* negative one included; it is 0 when total_fixed_cost is 0.
C9_SavingsPercentage ==
    (Calculated /\ InputsNonEmpty) =>
        /\ comparison.savings = fixed.total_fixed_cost - dynamic.total_dynamic_cost
        /\ fixed.total_fixed_cost # 0 =>
              SameFraction(comparison.savings_pct,
                           [num |-> comparison.savings * 100,
                            den |-> fixed.total_fixed_cost])
        /\ fixed.total_fixed_cost = 0 =>
              SameFraction(comparison.savings_pct, [num |-> 0, den |-> 1])

====
